---- MODULE Spec2Model ----
(***************************************************************************)
(* Model of .github/workflows/UpProxy.js: the download / extract / collect *)
(* / CIDR-filter / shuffle / write / publish pipeline.                     *)
(*                                                                         *)
(* JavaScript strings are sequences of one-character strings, so that      *)
(* split, trim and parseInt are modelled by what they do to the text.      *)
(* A JavaScript number that is only ever consumed by a bitwise operator is *)
(* kept as its value modulo 2^32 (ToInt32 and ToUint32 are functions of    *)
(* that residue), together with the NaN flag.                              *)
(***************************************************************************)
EXTENDS Integers, Sequences, FiniteSets, TLC

(***************************************************************************)
(* Bounds of the model.                                                    *)
(***************************************************************************)
\* The most .txt files the extracted archive leaves in the working directory.
MaxFiles == 3

\* The most lines one address-list file holds.
MaxLines == 2

(***************************************************************************)
(* Text helpers used to write the inputs down: Dec prints a natural number *)
(* in decimal, Dotted a dotted quad, Cidr a range "a.b.c.d/p".             *)
(***************************************************************************)
DigitChars == <<"0", "1", "2", "3", "4", "5", "6", "7", "8", "9">>

\* For n < 1000, which covers every number written in the inputs.
Dec(n) ==
    IF n < 10 THEN <<DigitChars[n + 1]>>
    ELSE IF n < 100 THEN <<DigitChars[(n \div 10) + 1], DigitChars[(n % 10) + 1]>>
    ELSE <<DigitChars[(n \div 100) + 1], DigitChars[((n \div 10) % 10) + 1],
           DigitChars[(n % 10) + 1]>>

Dotted(t) ==
    Dec(t[1]) \o <<".">> \o Dec(t[2]) \o <<".">> \o Dec(t[3]) \o <<".">> \o Dec(t[4])

Cidr(t, p) == Dotted(t) \o <<"/">> \o Dec(p)

(***************************************************************************)
(* 32-bit words.  A word is <<hi, lo>>, its upper and lower 16 bits, so    *)
(* that every intermediate result stays inside the integers TLC computes   *)
(* with; its value is hi * 2^16 + lo.                                      *)
(***************************************************************************)
Half == 65536

Zero32 == <<0, 0>>

Ones32 == <<Half - 1, Half - 1>>

\* The 32-bit two's complement pattern of an integer n with |n| < 2^31
\* (\div rounds down and % is never negative).
IntToWord(n) == <<(n \div Half) % Half, n % Half>>

\* ~a
NotW(a) == <<(Half - 1) - a[1], (Half - 1) - a[2]>>

\* The powers of two below 2^16, by exponent + 1.
Pow2 ==
    <<1, 2, 4, 8, 16, 32, 64, 128, 256, 512, 1024, 2048, 4096, 8192, 16384, 32768>>

AndHalf(x, y) ==
    LET B(k) == ((x \div Pow2[k]) % 2) * ((y \div Pow2[k]) % 2) * Pow2[k]
    IN B(1) + B(2) + B(3) + B(4) + B(5) + B(6) + B(7) + B(8)
         + B(9) + B(10) + B(11) + B(12) + B(13) + B(14) + B(15) + B(16)

\* a & b
AndW(a, b) == <<AndHalf(a[1], b[1]), AndHalf(a[2], b[2])>>

\* a << n for 0 <= n <= 31: the bits shifted past bit 31 are lost.
ShlW(a, n) ==
    IF n >= 16 THEN <<(a[2] * Pow2[n - 15]) % Half, 0>>
    ELSE <<(a[1] * Pow2[n + 1] + (a[2] * Pow2[n + 1]) \div Half) % Half,
           (a[2] * Pow2[n + 1]) % Half>>

\* a + b modulo 2^32.
AddW(a, b) ==
    <<(a[1] + b[1] + (a[2] + b[2]) \div Half) % Half, (a[2] + b[2]) % Half>>

(***************************************************************************)
(* JavaScript numbers.  NaN, an exact small integer (the result of         *)
(* parseInt), or a value known modulo 2^32 (a word).                       *)
(***************************************************************************)
NaN == [nan |-> TRUE]

Num(v) == [nan |-> FALSE, val |-> v]

\* ToInt32 of a number kept as a word: NaN becomes +0.
ToInt32(x) == IF x.nan THEN Zero32 ELSE x.val

\* ToUint32 (x >>> 0): the same bit pattern, read unsigned; NaN becomes +0.
ToUint32(x) == IF x.nan THEN Zero32 ELSE x.val

(***************************************************************************)
(* String.prototype.split, String.prototype.trim and parseInt.             *)
(***************************************************************************)
\* The characters trim() and parseInt strip that can occur in the inputs.
WhiteSpace == {" ", "\t", "\r", "\n"}

\* The pieces of s between the separators that start at the positions in
\* starts, the one at k being lens[k] characters long: always at least one
\* piece, and an empty piece wherever two separators meet.
Pieces(s, starts, lens) ==
    LET n      == Cardinality(starts)
        Nth(p) == CHOOSE k \in starts : Cardinality({m \in starts : m < k}) = p - 1
        From(p) == IF p = 1 THEN 1 ELSE Nth(p - 1) + lens[Nth(p - 1)]
        To(p)   == IF p = n + 1 THEN Len(s) ELSE Nth(p) - 1
    IN [p \in 1..(n + 1) |-> SubSeq(s, From(p), To(p))]

\* s.split(sep) for a one-character separator.
SplitChar(s, sep) ==
    Pieces(s, {k \in 1..Len(s) : s[k] = sep}, [k \in 1..Len(s) |-> 1])

\* How many characters the regular expression \r?\n matches at position k
\* of s (0: no match there).
SepLenAt(s, k) ==
    IF s[k] = "\n" THEN 1
    ELSE IF s[k] = "\r" /\ k < Len(s) /\ s[k + 1] = "\n" THEN 2
    ELSE 0

\* s.split(/\r?\n/): the matches are found left to right, so a line feed
\* that follows a carriage return belongs to the match that starts there.
SplitLines(s) ==
    LET lens == [k \in 1..Len(s) |-> SepLenAt(s, k)]
    IN Pieces(s,
              {k \in 1..Len(s) :
                  lens[k] > 0 /\ ~(k > 1 /\ s[k] = "\n" /\ s[k - 1] = "\r")},
              lens)

RECURSIVE TrimStart(_)
TrimStart(s) ==
    IF s # <<>> /\ s[1] \in WhiteSpace THEN TrimStart(Tail(s)) ELSE s

RECURSIVE TrimEnd(_)
TrimEnd(s) ==
    IF s # <<>> /\ s[Len(s)] \in WhiteSpace
    THEN TrimEnd(SubSeq(s, 1, Len(s) - 1)) ELSE s

\* line.trim()
Trim(s) == TrimEnd(TrimStart(s))

IsDigit(c) == \E d \in 1..10 : DigitChars[d] = c

DigitVal(c) == (CHOOSE d \in 1..10 : DigitChars[d] = c) - 1

\* The longest prefix of decimal digits of s.
RECURSIVE DigitPrefix(_)
DigitPrefix(s) ==
    IF s # <<>> /\ IsDigit(s[1]) THEN <<s[1]>> \o DigitPrefix(Tail(s)) ELSE <<>>

RECURSIVE DecValue(_)
DecValue(ds) ==
    IF ds = <<>> THEN 0
    ELSE 10 * DecValue(SubSeq(ds, 1, Len(ds) - 1)) + DigitVal(ds[Len(ds)])

\* What a missing array element prints as when parseInt converts it to a string.
UndefinedStr == <<"u", "n", "d", "e", "f", "i", "n", "e", "d">>

\* parseInt(s, 10): leading white space skipped, an optional sign, then the
\* longest run of digits; NaN when that run is empty.
parseInt(s) ==
    LET t      == TrimStart(s)
        neg    == t # <<>> /\ t[1] = "-"
        signed == t # <<>> /\ t[1] \in {"+", "-"}
        body   == IF signed THEN Tail(t) ELSE t
        ds     == DigitPrefix(body)
    IN IF ds = <<>> THEN NaN
       ELSE Num(IF neg THEN -DecValue(ds) ELSE DecValue(ds))

(***************************************************************************)
(* ipToLong and isIpInCidr.                                                *)
(***************************************************************************)
\* (res << 8) + parseInt(octet, 10): the shift takes ToInt32(res), so a NaN
\* accumulator restarts from 0; the sum is NaN when the octet does not parse.
ReduceStep(res, octet) ==
    LET shifted == ShlW(ToInt32(res), 8)
        parsed  == parseInt(octet)
    IN IF parsed.nan THEN NaN ELSE Num(AddW(shifted, IntToWord(parsed.val)))

RECURSIVE Reduce(_, _)
Reduce(parts, res) ==
    IF parts = <<>> THEN res ELSE Reduce(Tail(parts), ReduceStep(res, parts[1]))

\* ipString.split('.').reduce(..., 0) >>> 0
ipToLong(ipString) == ToUint32(Reduce(SplitChar(ipString, "."), Num(Zero32)))

\* The shift count of 1 << n: ToUint32(n) & 31, with NaN counting as 0.
ShiftCount(n) == IF n.nan THEN 0 ELSE n.val % 32

\* ~((1 << (32 - parseInt(bits, 10))) - 1) >>> 0
MaskOf(bits) ==
    LET p     == parseInt(bits)
        count == ShiftCount(IF p.nan THEN NaN ELSE Num(32 - p.val))
    IN NotW(AddW(ShlW(IntToWord(1), count), Ones32))

\* isIpInCidr with the mask forgotten in the comparison.
isIpInCidrUnmasked(ip, cidr) ==
    LET parts     == SplitChar(cidr, "/")
        range     == parts[1]
        ipLong    == ipToLong(ip)
        rangeLong == ipToLong(range)
    IN ipLong = rangeLong

isIpInCidr(ip, cidr) ==
    LET parts     == SplitChar(cidr, "/")
        range     == parts[1]
        bits      == IF Len(parts) >= 2 THEN parts[2] ELSE UndefinedStr
        mask      == MaskOf(bits)
        ipLong    == ipToLong(ip)
        rangeLong == ipToLong(range)
    IN AndW(ipLong, mask) = AndW(rangeLong, mask)

(***************************************************************************)
(* The excluded ranges.                                                    *)
(***************************************************************************)
\* The fourteen entries that are a dotted quad and a prefix length.
WellFormedRanges ==
    << <<<<141, 101, 64, 0>>, 18>>,
       <<<<172, 64, 0, 0>>, 13>>,
       <<<<162, 158, 0, 0>>, 15>>,
       <<<<104, 16, 0, 0>>, 13>>,
       <<<<104, 24, 0, 0>>, 14>>,
       <<<<173, 245, 48, 0>>, 20>>,
       <<<<103, 21, 244, 0>>, 22>>,
       <<<<103, 22, 200, 0>>, 22>>,
       <<<<103, 31, 4, 0>>, 22>>,
       <<<<188, 114, 96, 0>>, 20>>,
       <<<<190, 93, 240, 0>>, 20>>,
       <<<<197, 234, 240, 0>>, 22>>,
       <<<<198, 41, 128, 0>>, 17>>,
       <<<<131, 0, 72, 0>>, 22>> >>

\* '101.x.x.x/15'
FirstBanned == <<"1", "0", "1", ".", "x", ".", "x", ".", "x", "/", "1", "5">>

bannedCidrs ==
    <<FirstBanned>>
        \o [k \in 1..Len(WellFormedRanges) |->
               Cidr(WellFormedRanges[k][1], WellFormedRanges[k][2])]

(***************************************************************************)
(* Sequence helpers.                                                       *)
(***************************************************************************)
InSeq(x, seq) == \E k \in 1..Len(seq) : seq[k] = x

RECURSIVE Join(_, _)
Join(seq, sep) ==
    IF seq = <<>> THEN <<>>
    ELSE IF Len(seq) = 1 THEN seq[1]
    ELSE seq[1] \o sep \o Join(Tail(seq), sep)

\* name.endsWith(suffix)
EndsWith(name, suffix) ==
    /\ Len(name) >= Len(suffix)
    /\ SubSeq(name, Len(name) - Len(suffix) + 1, Len(name)) = suffix

(***************************************************************************)
(* Inputs.  A line of an address-list file is written down as the text it  *)
(* carries (body, with no white space at its ends) and the white space     *)
(* around it; a file as its lines, its line terminator and whether the     *)
(* last line is terminated.                                                *)
(***************************************************************************)
LF == <<"\n">>

CRLF == <<"\r", "\n">>

Plain(body) == [pre |-> <<>>, body |-> body, post |-> <<>>]

\* Well-formed dotted quads, as their four octets.
WellFormedPool ==
    { <<103, 21, 245, 10>>, <<103, 21, 248, 1>>, <<1, 2, 3, 4>>,
      <<101, 0, 0, 0>>, <<0, 1, 2, 3>>, <<198, 41, 200, 7>> }

\* An address whose first segment is not a number.
MalformedAddr == <<"x", ".", "2", "0", "0", ".", "3", ".", "4">>

PipelineLines ==
    {Plain(Dotted(t)) : t \in WellFormedPool} \cup {Plain(MalformedAddr)}

RichLines ==
    { Plain(Dotted(<<1, 2, 3, 4>>)),
      [pre |-> <<" ">>, body |-> Dotted(<<1, 2, 3, 4>>), post |-> <<"\t">>],
      Plain(Dotted(<<8, 8, 8, 8>>)),
      [pre |-> <<"\t">>, body |-> Dotted(<<9, 9, 9, 9>>), post |-> <<" ", " ">>],
      Plain(<<>>),
      [pre |-> <<" ">>, body |-> <<>>, post |-> <<"\t">>] }

SeqsUpTo(S, n) == UNION {[1..k -> S] : k \in 0..n}

\* The files the collect step may meet: readable ones with every choice of
\* lines and terminator, and unreadable ones (whose content is never seen).
FileInputs(pool, maxLines, eols) ==
    { [readable |-> TRUE, lines |-> ls, eol |-> e, trailing |-> t] :
          ls \in SeqsUpTo(pool, maxLines), e \in eols, t \in BOOLEAN }
    \cup { [readable |-> FALSE, lines |-> <<l>>, eol |-> LF, trailing |-> FALSE] :
              l \in pool }

PipelineFiles == FileInputs(PipelineLines, 1, {LF})

RichFiles == FileInputs(RichLines, MaxLines, {LF, CRLF})

RawLine(l) == l.pre \o l.body \o l.post

\* The text of a file on disk.
FileText(f) ==
    Join([k \in 1..Len(f.lines) |-> RawLine(f.lines[k])], f.eol)
        \o (IF f.trailing THEN f.eol ELSE <<>>)

ZipName == <<"p", "r", "o", "x", "y", ".", "t", "x", "t", ".", "z", "i", "p">>

TxtSuffix == <<".", "t", "x", "t">>

TxtName(k) == <<"f">> \o Dec(k) \o TxtSuffix

\* The working directory after extraction: the downloaded archive itself
\* and the n address lists it held.
Listing(n) == <<ZipName>> \o [k \in 1..n |-> TxtName(k)]

(***************************************************************************)
(* The remote store as the lookup finds it, and what the lookup returns.   *)
(***************************************************************************)
Tokens == {"sha1", "sha2"}

RemoteStates ==
    {[kind |-> "absent"], [kind |-> "dir"]}
        \cup {[kind |-> "file", sha |-> t] : t \in Tokens}

\* axios.get resolves (2xx) or rejects: with an HTTP status, or with no
\* response at all.  A directory answers with a listing that has no sha.
LookupResults(r) ==
    (IF r.kind = "file" THEN {[kind |-> "ok", sha |-> r.sha]}
     ELSE IF r.kind = "dir" THEN {[kind |-> "ok", sha |-> ""]}
     ELSE {})
    \cup {[kind |-> "http", status |-> 404], [kind |-> "http", status |-> 500],
          [kind |-> "network"]}

\* process.env as uploadToGitHub reads it: whether GITHUB_TOKEN and
\* GITHUB_REPOSITORY are set to a non-empty value.
Envs == [read : {TRUE}, token : BOOLEAN, repository : BOOLEAN]

NotRead == [read |-> FALSE, token |-> FALSE, repository |-> FALSE]

(***************************************************************************)
(* State.                                                                  *)
(***************************************************************************)
VARIABLES
    pc,               \* where main() is
    env,              \* githubToken / repository, once read from process.env
    allFiles,         \* readdirSync(workDir)
    idx,              \* the forEach position in allFiles
    ipSet,            \* the Set, in insertion order
    linesRead,        \* history: the bodies of the lines of the files read
    readStats,        \* history: lines read, and files that could not be read
    filteredIps,      \* the filtered array
    beforeShuffle,    \* history: filteredIps as the filter left it
    i,                \* the shuffle loop index
    j,                \* the last random index drawn
    iAtDraw,          \* history: the value of i when j was drawn
    outFile,          \* BestProxy/bestproxy.txt
    existingFileSha,
    lookup,           \* history: the remote state and the lookup's result
    payload,          \* the body of the PUT
    log,              \* history: I/O operations in the order they were issued
    status,           \* history: how each fatal-on-failure stage ended
    exitCode,         \* the process exit code, -1 while running
    call              \* a stand-alone call of isIpInCidr

vars ==
    <<pc, env, allFiles, idx, ipSet, linesRead, readStats, filteredIps, beforeShuffle, i, j,
      iAtDraw, outFile, existingFileSha, lookup, payload, log, status, exitCode,
      call>>

NoCall ==
    [addr |-> <<>>, base |-> <<>>, prefix |-> 0, ip |-> <<>>, cidr |-> <<>>,
     mask |-> Zero32, result |-> "none"]

NoLookup == [remote |-> [kind |-> "unknown"], result |-> [kind |-> "none"]]

NoPayload == [none |-> TRUE]

NoFile == [exists |-> FALSE, text |-> <<>>]

InitStatus ==
    [download |-> "none", extract |-> "none", write |-> "none", put |-> "none"]

InitCommon ==
    /\ env = NotRead
    /\ allFiles = <<>>
    /\ idx = 1
    /\ ipSet = <<>>
    /\ linesRead = {}
    /\ readStats = [raw |-> 0, unreadable |-> 0]
    /\ filteredIps = <<>>
    /\ beforeShuffle = <<>>
    /\ i = 0
    /\ j = 0
    /\ iAtDraw = 0
    /\ outFile = NoFile
    /\ existingFileSha = ""
    /\ lookup = NoLookup
    /\ payload = NoPayload
    /\ log = <<>>
    /\ status = InitStatus
    /\ exitCode = -1

Init ==
    /\ pc = "download"
    /\ call = NoCall
    /\ InitCommon

collectVars == <<allFiles, idx, ipSet, linesRead, readStats>>

shuffleVars == <<filteredIps, beforeShuffle, i, j, iAtDraw>>

publishVars == <<outFile, existingFileSha, lookup, payload>>

\* process.exit(code)
Exit(code) == pc' = "exited" /\ exitCode' = code

Continue(next) == pc' = next /\ exitCode' = exitCode

(***************************************************************************)
(* 1. Download the archive.                                                *)
(***************************************************************************)
Download ==
    /\ pc = "download"
    /\ log' = Append(log, "download")
    /\ \E ok \in BOOLEAN :
          /\ status' = [status EXCEPT !.download = IF ok THEN "ok" ELSE "fail"]
          /\ IF ok THEN Continue("extract") ELSE Exit(1)
    /\ UNCHANGED <<env, collectVars, shuffleVars, publishVars, call>>

(***************************************************************************)
(* 2. Extract it, then list the working directory.                         *)
(***************************************************************************)
Extract ==
    /\ pc = "extract"
    /\ \E ok \in BOOLEAN :
          /\ status' = [status EXCEPT !.extract = IF ok THEN "ok" ELSE "fail"]
          /\ IF ok
             THEN \/ /\ \E n \in 0..MaxFiles : allFiles' = Listing(n)
                     /\ Continue("collect")
                  \* readdirSync throws: main().catch
                  \/ /\ allFiles' = allFiles
                     /\ Exit(1)
             ELSE /\ allFiles' = allFiles
                  /\ Exit(1)
    /\ UNCHANGED <<env, idx, ipSet, linesRead, readStats, shuffleVars, publishVars, log,
                   call>>

(***************************************************************************)
(* 3. Collect: one iteration of allFiles.forEach.                          *)
(***************************************************************************)
\* The fold with the line added as it stands, untrimmed.
RECURSIVE AddAllNoTrim(_, _)
AddAllNoTrim(set, lines) ==
    IF lines = <<>> THEN set
    ELSE LET ip == lines[1]
         IN AddAllNoTrim(IF ip # <<>> /\ ~InSeq(ip, set) THEN Append(set, ip) ELSE set,
                         Tail(lines))

\* ipSet.add(ip) for every non-empty trimmed line, in order.
RECURSIVE AddAll(_, _)
AddAll(set, lines) ==
    IF lines = <<>> THEN set
    ELSE LET ip == Trim(lines[1])
         IN AddAll(IF ip # <<>> /\ ~InSeq(ip, set) THEN Append(set, ip) ELSE set,
                   Tail(lines))

AddLines(set, fileContent) == AddAll(set, SplitLines(fileContent))

Bodies(f) == {f.lines[k].body : k \in 1..Len(f.lines)} \ {<<>>}

CollectFile(inputs) ==
    /\ pc = "collect"
    /\ IF EndsWith(allFiles[idx], TxtSuffix)
       THEN \E f \in inputs :
               IF f.readable
               THEN /\ ipSet' = AddLines(ipSet, FileText(f))
                    /\ linesRead' = linesRead \cup Bodies(f)
                    /\ readStats' = [readStats EXCEPT !.raw = @ + Len(f.lines)]
               ELSE /\ UNCHANGED <<ipSet, linesRead>>
                    /\ readStats' = [readStats EXCEPT !.unreadable = @ + 1]
       ELSE UNCHANGED <<ipSet, linesRead, readStats>>
    /\ idx' = idx + 1
    /\ Continue(IF idx = Len(allFiles) THEN "filter" ELSE "collect")
    /\ UNCHANGED <<env, allFiles, shuffleVars, publishVars, log, status, call>>

(***************************************************************************)
(* 4. Filter.                                                              *)
(***************************************************************************)
\* split, reduce and parseInt are defined on every string: no call of
\* isIpInCidr on a line of text throws.
Throws(ip, cidr) == FALSE

\* for (const cidr of cidrs): the first match (or throw) rejects the address.
RECURSIVE KeepOver(_, _)
KeepOver(ip, cidrs) ==
    IF cidrs = <<>> THEN TRUE
    ELSE IF Throws(ip, cidrs[1]) THEN FALSE
    ELSE IF isIpInCidr(ip, cidrs[1]) THEN FALSE
    ELSE KeepOver(ip, Tail(cidrs))

\* The callback of Array.prototype.filter.
Keep(ip) == KeepOver(ip, bannedCidrs)

FilterIps(seq) == SelectSeq(seq, Keep)

Filter ==
    /\ pc = "filter"
    /\ filteredIps' = FilterIps(ipSet)
    /\ beforeShuffle' = filteredIps'
    /\ i' = Len(filteredIps') - 1
    /\ Continue("shuffle")
    /\ UNCHANGED <<env, collectVars, j, iAtDraw, publishVars, log, status, call>>

(***************************************************************************)
(* 5. Shuffle: one iteration of the loop.  Indices are the code's, from 0. *)
(***************************************************************************)
\* Math.floor(Math.random() * (n + 1)), Math.random() being in [0, 1).
RandomIndex(n) == 0..n

\* The swap with only its first assignment: a[x] = a[y].
SwapOverwrite(a, x, y) == [a EXCEPT ![x + 1] = a[y + 1]]

\* [a[x], a[y]] = [a[y], a[x]]
Swap(a, x, y) == [a EXCEPT ![x + 1] = a[y + 1], ![y + 1] = a[x + 1]]

ShuffleStep ==
    /\ pc = "shuffle"
    /\ i > 0
    /\ \E r \in RandomIndex(i) :
          /\ j' = r
          /\ filteredIps' = Swap(filteredIps, i, r)
    /\ iAtDraw' = i
    /\ i' = i - 1
    /\ Continue("shuffle")
    /\ UNCHANGED <<env, collectVars, beforeShuffle, publishVars, log, status, call>>

(***************************************************************************)
(* 6. Write the artifact.                                                  *)
(***************************************************************************)
\* The write step with a failed write carrying on to the upload.
WriteLocalIgnoresFailure ==
    /\ pc = "shuffle"
    /\ ~(i > 0)
    /\ \E ok \in BOOLEAN :
          /\ status' = [status EXCEPT !.write = IF ok THEN "ok" ELSE "fail"]
          /\ IF ok
             THEN /\ outFile' = [exists |-> TRUE, text |-> Join(filteredIps, LF)]
                  /\ log' = Append(log, "write")
             ELSE UNCHANGED <<outFile, log>>
          /\ Continue("upload")
    /\ UNCHANGED <<env, collectVars, shuffleVars, existingFileSha, lookup, payload,
                   call>>

WriteLocal ==
    /\ pc = "shuffle"
    /\ ~(i > 0)
    /\ \E ok \in BOOLEAN :
          /\ status' = [status EXCEPT !.write = IF ok THEN "ok" ELSE "fail"]
          /\ IF ok
             THEN /\ outFile' = [exists |-> TRUE, text |-> Join(filteredIps, LF)]
                  /\ log' = Append(log, "write")
                  /\ Continue("upload")
             ELSE /\ UNCHANGED <<outFile, log>>
                  /\ Exit(1)
    /\ UNCHANGED <<env, collectVars, shuffleVars, existingFileSha, lookup, payload,
                   call>>

(***************************************************************************)
(* 8. uploadToGitHub.                                                      *)
(***************************************************************************)
\* The check with && in place of ||.
ConfigMissingBoth(e) == ~e.token /\ ~e.repository

\* !githubToken || !repository
ConfigMissing(e) == ~e.token \/ ~e.repository

\* The start of uploadToGitHub going straight to the write, with no lookup.
UploadCheckSkipsLookup ==
    /\ pc = "upload"
    /\ env' \in Envs
    /\ IF ConfigMissing(env') THEN Exit(1)
       ELSE \E readOk \in BOOLEAN : IF readOk THEN Continue("put") ELSE Exit(1)
    /\ UNCHANGED <<collectVars, shuffleVars, publishVars, log, status, call>>

\* The start of uploadToGitHub: the configuration check, then reading the
\* artifact back (an uncaught failure there ends in main().catch).
UploadCheck ==
    /\ pc = "upload"
    /\ env' \in Envs
    /\ IF ConfigMissing(env') THEN Exit(1)
       ELSE \E readOk \in BOOLEAN : IF readOk THEN Continue("lookup") ELSE Exit(1)
    /\ UNCHANGED <<collectVars, shuffleVars, publishVars, log, status, call>>

\* The transport encoding of the content, left uninterpreted.
Base64(text) == <<"base64", text>>

\* The sha the lookup leaves in existingFileSha.
ShaFound(res) == IF res.kind = "ok" /\ res.sha # "" THEN res.sha ELSE ""

\* The request body with the sha never added.
BuildPayloadNoSha(sha, content, ipCount) ==
    [message |-> ipCount, content |-> Base64(content)]

\* The request body: sha only when one was found.
BuildPayload(sha, content, ipCount) ==
    IF sha # ""
    THEN [message |-> ipCount, content |-> Base64(content), sha |-> sha]
    ELSE [message |-> ipCount, content |-> Base64(content)]

Lookup ==
    /\ pc = "lookup"
    /\ log' = Append(log, "get")
    /\ \E r \in RemoteStates :
          \E res \in LookupResults(r) :
             /\ lookup' = [remote |-> r, result |-> res]
             /\ existingFileSha' = ShaFound(res)
    /\ payload' = BuildPayload(existingFileSha', outFile.text, Len(filteredIps))
    /\ Continue("put")
    /\ UNCHANGED <<env, collectVars, shuffleVars, outFile, status, call>>

Put ==
    /\ pc = "put"
    /\ log' = Append(log, "put")
    /\ \E ok \in BOOLEAN :
          /\ status' = [status EXCEPT !.put = IF ok THEN "ok" ELSE "fail"]
          /\ IF ok THEN Exit(0) ELSE Exit(1)
    /\ UNCHANGED <<env, collectVars, shuffleVars, publishVars, call>>

Next ==
    \/ Download
    \/ Extract
    \/ CollectFile(PipelineFiles)
    \/ Filter
    \/ ShuffleStep
    \/ WriteLocal
    \/ UploadCheck
    \/ Lookup
    \/ Put

Spec == Init /\ [][Next]_vars

(***************************************************************************)
(* The collect step on its own, on files with padded, blank and repeated   *)
(* lines, LF and CRLF terminators: it starts where a successful extraction *)
(* leaves main().                                                          *)
(***************************************************************************)
InitCollect ==
    /\ pc = "collect"
    /\ call = NoCall
    /\ env = NotRead
    /\ \E n \in 1..MaxFiles : allFiles = Listing(n)
    /\ idx = 1
    /\ ipSet = <<>>
    /\ linesRead = {}
    /\ readStats = [raw |-> 0, unreadable |-> 0]
    /\ filteredIps = <<>>
    /\ beforeShuffle = <<>>
    /\ i = 0
    /\ j = 0
    /\ iAtDraw = 0
    /\ outFile = NoFile
    /\ existingFileSha = ""
    /\ lookup = NoLookup
    /\ payload = NoPayload
    /\ log = <<"download">>
    /\ status = [InitStatus EXCEPT !.download = "ok", !.extract = "ok"]
    /\ exitCode = -1

NextCollect == CollectFile(RichFiles)

SpecCollect == InitCollect /\ [][NextCollect]_vars

(***************************************************************************)
(* isIpInCidr on its own, over well-formed addresses and ranges of every   *)
(* kind of prefix length.                                                  *)
(***************************************************************************)
CallAddrs ==
    WellFormedPool \cup {<<0, 0, 0, 0>>, <<255, 255, 255, 255>>, <<103, 21, 244, 0>>}

CallBases == {<<103, 21, 244, 0>>, <<0, 0, 0, 0>>, <<198, 41, 128, 0>>}

CallPrefixes == {0, 1, 15, 22, 31, 32}

InitCidr ==
    /\ pc = "isIpInCidr"
    /\ InitCommon
    /\ \E a \in CallAddrs, b \in CallBases, p \in CallPrefixes :
          call = [addr |-> a, base |-> b, prefix |-> p, ip |-> Dotted(a),
                  cidr |-> Cidr(b, p), mask |-> Zero32, result |-> "pending"]

\* One call: the mask it computes and the boolean it returns.
CallIsIpInCidr ==
    /\ pc = "isIpInCidr"
    /\ call.result = "pending"
    /\ call' = [call EXCEPT
                   !.mask = MaskOf(SplitChar(call.cidr, "/")[2]),
                   !.result = IF isIpInCidr(call.ip, call.cidr) THEN "true" ELSE "false"]
    /\ UNCHANGED <<pc, env, collectVars, shuffleVars, publishVars, log, status,
                   exitCode>>

NextCidr == CallIsIpInCidr

SpecCidr == InitCidr /\ [][NextCidr]_vars

(***************************************************************************)
(* Properties.                                                             *)
(***************************************************************************)
Count(seq, x) == Cardinality({k \in 1..Len(seq) : seq[k] = x})

Elems(seq) == {seq[k] : k \in 1..Len(seq)}

\* The masking rule stated on the octets: the first p bits of t and b agree,
\* that is the first p \div 8 octets and the top p % 8 bits of the next one.
RefMatch(t, b, p) ==
    LET q == p \div 8
        r == p % 8
    IN /\ \A k \in 1..q : t[k] = b[k]
       /\ r > 0 => t[q + 1] \div Pow2[9 - r] = b[q + 1] \div Pow2[9 - r]

InBannedRange(t) ==
    \E k \in 1..Len(WellFormedRanges) :
        RefMatch(t, WellFormedRanges[k][1], WellFormedRanges[k][2])

\* The lines of the written artifact and of the content sent to the store.
ArtifactLines == IF outFile.exists THEN SplitChar(outFile.text, "\n") ELSE <<>>

PublishedLines ==
    IF "content" \in DOMAIN payload THEN SplitChar(payload.content[2], "\n") ELSE <<>>

AddrIn22 == <<103, 21, 245, 10>>

AddrOut22 == <<103, 21, 248, 1>>

\* C1: a well-formed collected address that matches a well-formed banned
\* range under the masking rule is absent from the filtered sequence, from
\* the written artifact and from the published content; 103.21.245.10 is
\* excluded and 103.21.248.1, once collected, is retained by the filter.
C1_FilterSoundness ==
    /\ \A t \in WellFormedPool :
          InBannedRange(t) =>
              LET d == Dotted(t)
              IN /\ ~InSeq(d, filteredIps)
                 /\ ~InSeq(d, ArtifactLines)
                 /\ ~InSeq(d, PublishedLines)
    /\ InBannedRange(AddrIn22)
    /\ AddrIn22 \in WellFormedPool
    /\ (pc \notin {"collect", "filter"} /\ InSeq(Dotted(AddrOut22), ipSet))
          => InSeq(Dotted(AddrOut22), filteredIps)

\* A successful run in which both example addresses and a banned address with
\* the top bit set were collected, and only 103.21.248.1 was published.
C1_Witness ==
    /\ pc = "exited" /\ exitCode = 0
    /\ InSeq(Dotted(AddrIn22), ipSet)
    /\ InSeq(Dotted(<<198, 41, 200, 7>>), ipSet)
    /\ PublishedLines = <<Dotted(AddrOut22)>>

\* C2: an address for which the conversion cannot be performed (a segment
\* that is not an integer) never appears in the filtered sequence.
C2_FailClosed == ~InSeq(MalformedAddr, filteredIps)

\* C3: for a range of prefix length 0 the computed mask is all zero bits and
\* isIpInCidr is true for every well-formed address and base.
C3_ZeroPrefix ==
    (call.result \in {"true", "false"} /\ call.prefix = 0)
        => (call.mask = Zero32 /\ call.result = "true")

LookupDone == lookup.result.kind # "none"

\* C4 as stated: the payload carries sha = T whenever the remote resource
\* exists with token T at the lookup, and no sha when none exists, whatever
\* the lookup returned.
C4_TokenDiscipline ==
    LookupDone =>
        /\ lookup.remote.kind = "file" =>
              ("sha" \in DOMAIN payload /\ payload.sha = lookup.remote.sha)
        /\ lookup.remote.kind = "absent" => "sha" \notin DOMAIN payload

\* C4 amended: the payload carries sha = T exactly when the lookup itself
\* succeeded and returned token T (then T is the resource's token); after a
\* success without sha, a 404, another HTTP error or no response it carries
\* no sha, even when the resource exists; with no remote resource it never
\* carries one.
C4_TokenFromLookup ==
    LookupDone =>
        /\ IF lookup.result.kind = "ok" /\ lookup.result.sha # ""
           THEN /\ "sha" \in DOMAIN payload
                /\ payload.sha = lookup.result.sha
                /\ lookup.remote.kind = "file"
                /\ payload.sha = lookup.remote.sha
           ELSE "sha" \notin DOMAIN payload
        /\ lookup.remote.kind = "absent" => "sha" \notin DOMAIN payload

\* The write was issued with the token of an existing resource.
C4_Witness ==
    /\ pc = "exited" /\ exitCode = 0
    /\ lookup.remote = [kind |-> "file", sha |-> "sha2"]
    /\ "sha" \in DOMAIN payload
    /\ payload.sha = "sha2"

IsNetworkOp(op) == op \in {"download", "get", "put"}

C6_FatalFailures ==
    /\ InSeq("put", log) =>
          (status.download = "ok" /\ status.extract = "ok" /\ status.write = "ok")
    /\ (pc = "exited" /\ exitCode = 0) => status.put = "ok"
    /\ exitCode \in {-1, 0, 1}
    /\ (pc = "exited") = (exitCode # -1)
    /\ \A st \in DOMAIN status :
          status[st] = "fail" => (pc = "exited" /\ exitCode = 1)

\* The remote write failed and the run ended with exit code 1.
C6_Witness == pc = "exited" /\ status.put = "fail" /\ exitCode = 1

\* C7: the collected set holds exactly the distinct trimmed non-empty lines
\* of the readable files, each once; blank lines and unreadable files add
\* nothing.
C7_Dedup ==
    /\ Elems(ipSet) = linesRead
    /\ Len(ipSet) = Cardinality(linesRead)

\* The loop is over, a file could not be read, and the files that could held
\* more lines than distinct addresses.
C7_Witness ==
    /\ pc = "filter"
    /\ readStats.unreadable >= 1
    /\ Cardinality(linesRead) >= 2
    /\ readStats.raw > Cardinality(linesRead)
    /\ Len(ipSet) = Cardinality(linesRead)

\* C8: after every shuffle step and at the end the sequence has the length
\* and the multiset of elements of the filtered sequence before the shuffle,
\* and the index drawn lies in [0, i].
C8_Permutation ==
    /\ Len(filteredIps) = Len(beforeShuffle)
    /\ \A k \in 1..Len(beforeShuffle) :
          Count(filteredIps, beforeShuffle[k]) = Count(beforeShuffle, beforeShuffle[k])
    /\ j >= 0 /\ j <= iAtDraw

\* The loop is over for three addresses and moved the last one to the front.
C8_Witness ==
    /\ pc = "shuffle" /\ i = 0
    /\ Len(filteredIps) = 3
    /\ filteredIps[1] = beforeShuffle[3]
    /\ filteredIps # beforeShuffle

IsPrefix(a, b) == Len(a) <= Len(b) /\ SubSeq(b, 1, Len(a)) = a

\* C9: at most one lookup and one remote write; the operations are issued in
\* the order download, local write, lookup, remote write, each after the one
\* before it has completed; a run that ends with exit code 0 issued each once.
C9_PublishOrder ==
    /\ Count(log, "get") <= 1
    /\ Count(log, "put") <= 1
    /\ IsPrefix(log, <<"download", "write", "get", "put">>)
    /\ InSeq("get", log) => outFile.exists
    /\ InSeq("put", log) => LookupDone
    /\ (pc = "exited" /\ exitCode = 0) => log = <<"download", "write", "get", "put">>

\* A successful run whose lookup got no response at all.
C9_Witness ==
    /\ pc = "exited" /\ exitCode = 0
    /\ lookup.result.kind = "network"
    /\ log = <<"download", "write", "get", "put">>

\* C10: the first banned entry acts as 101.0.0.0/15: 101.0.0.0 is never in the
\* filtered sequence, and 0.1.2.3, once collected, is retained by the filter.
C10_FirstEntryIs101 ==
    /\ ~InSeq(Dotted(<<101, 0, 0, 0>>), filteredIps)
    /\ (pc \notin {"collect", "filter"} /\ InSeq(Dotted(<<0, 1, 2, 3>>), ipSet))
          => InSeq(Dotted(<<0, 1, 2, 3>>), filteredIps)

====
